---- MODULE Spec2Model ----
(***************************************************************************)
(* Model of bin/sra_filtering.py of steffenlem/querysra: the blacklist     *)
(* filter, the keyword classifier, the optional access-status enrichment   *)
(* and the report writers, as driven by main().                            *)
(*                                                                         *)
(* Text is modelled as a sequence of one-character strings, so that        *)
(* str.lower() and the substring test `a in b` are computed, not assumed.  *)
(* Python lists are sequences; a Python index i is position i + 1.         *)
(* A run (one row of the table) is a record [pos, fields]: `fields` is the *)
(* Python list, `pos` is a history field holding the position of the row   *)
(* in the input table, which no operation reads.                           *)
(***************************************************************************)
EXTENDS Integers, Sequences, FiniteSets, TLC

VARIABLES
    col_names,            \* main: column names of the parsed table
    sra_relation,         \* main: the parsed table
    blacklist_keywords,   \* main: the blacklist
    all_class_keywords,   \* main: one keyword list per class
    all_class_names,      \* main: class names (replaced by check_access_status)
    get_access_status,    \* main: the --get_access_status flag
    ncbi_api_key,         \* main: the --ncbi_api_key option
    excluded_runs,        \* main: result of filter_samples
    included_runs,        \* main: result of filter_samples
    classified_runs,      \* main: result of classify_runs (replaced by check_access_status)
    unresolved_runs,      \* main: result of classify_runs
    undefined_runs,       \* main: result of classify_runs
    all_projects,         \* check_access_status: projects seen so far
    project_access,       \* check_access_status: project accession -> status
    cursor,               \* check_access_status: rows of the first loop already visited
    remote_calls,         \* history: the requests sent to the remote service
    files,                \* the files written to outputdir
    pc,                   \* position of main
    error                 \* the exception or exit message that ended main, "" if none

vars == << col_names, sra_relation, blacklist_keywords, all_class_keywords,
           all_class_names, get_access_status, ncbi_api_key, excluded_runs,
           included_runs, classified_runs, unresolved_runs, undefined_runs,
           all_projects, project_access, cursor, remote_calls, files, pc, error >>

(***************************************************************************)
(* Bounds of the model.                                                    *)
(***************************************************************************)
MaxRows == 2

(***************************************************************************)
(* Python helpers.                                                         *)
(***************************************************************************)
SeqsUpTo(S, n) == UNION { [1..k -> S] : k \in 0..n }

Range(s) == { s[i] : i \in DOMAIN s }

\* the value None
None == "None"

\* ch.lower() for one character
LowerChar(c) ==
    CASE c = "T" -> "t"
      [] c = "B" -> "b"
      [] c = "Q" -> "q"
      [] c = "C" -> "c"
      [] OTHER -> c

\* str.lower()
Lower(s) == [i \in DOMAIN s |-> LowerChar(s[i])]

\* needle in hay, for str
Contains(hay, needle) ==
    \E k \in 0..(Len(hay) - Len(needle)) :
        SubSeq(hay, k + 1, k + Len(needle)) = needle

\* list.index(x): the Python index of the first occurrence (ValueError when HasItem is false)
HasItem(list, x) == \E i \in DOMAIN list : list[i] = x

IndexOf(list, x) == (CHOOSE i \in DOMAIN list : list[i] = x /\ \A j \in 1..(i - 1) : list[j] # x) - 1

\* list[i] for a Python index i, negative indices counting from the end
PyAt(list, i) == IF i < 0 THEN list[Len(list) + i + 1] ELSE list[i + 1]

RECURSIVE Flatten(_)
Flatten(lists) ==
    IF lists = << >> THEN << >> ELSE Head(lists) \o Flatten(Tail(lists))

\* [x for x in list if P(x)], order kept
RECURSIVE SelectRuns(_, _)
SelectRuns(list, keep) ==
    IF list = << >> THEN << >>
    ELSE (IF keep[1] THEN << Head(list) >> ELSE << >>)
         \o SelectRuns(Tail(list), Tail(keep))

(***************************************************************************)
(* main, lines 56-58.                                                      *)
(***************************************************************************)
fields_to_search == << "sample_attribute", "experiment_title", "sample_name" >>

(***************************************************************************)
(* is_key_in_run: fields in the outer loop, keywords in the inner loop;    *)
(* returns << found, first keyword found >>.                               *)
(***************************************************************************)
KeyHits(run, idx_fields_to_search, keyword_list) ==
    { << f, k >> \in (DOMAIN idx_fields_to_search) \X (DOMAIN keyword_list) :
        Contains(Lower(PyAt(run, idx_fields_to_search[f])), Lower(keyword_list[k])) }

\* faulty variant: keywords in the outer loop, fields in the inner loop
is_key_in_run_keyword_major(run, idx_fields_to_search, keyword_list) ==
    LET hits == KeyHits(run, idx_fields_to_search, keyword_list)
    IN  IF hits = {} THEN << FALSE, << >> >>
        ELSE LET first == CHOOSE h \in hits : \A g \in hits :
                              h[2] < g[2] \/ (h[2] = g[2] /\ h[1] <= g[1])
             IN  << TRUE, keyword_list[first[2]] >>

\* faulty variant: the comparison without .lower()
is_key_in_run_case_sensitive(run, idx_fields_to_search, keyword_list) ==
    LET hits == { << f, k >> \in (DOMAIN idx_fields_to_search) \X (DOMAIN keyword_list) :
                    Contains(PyAt(run, idx_fields_to_search[f]), keyword_list[k]) }
    IN  IF hits = {} THEN << FALSE, << >> >>
        ELSE LET first == CHOOSE h \in hits : \A g \in hits :
                              h[1] < g[1] \/ (h[1] = g[1] /\ h[2] <= g[2])
             IN  << TRUE, keyword_list[first[2]] >>

is_key_in_run(run, idx_fields_to_search, keyword_list) ==
    LET hits == KeyHits(run, idx_fields_to_search, keyword_list)
    IN  IF hits = {} THEN << FALSE, << >> >>
        ELSE LET first == CHOOSE h \in hits : \A g \in hits :
                              h[1] < g[1] \/ (h[1] = g[1] /\ h[2] <= g[2])
             IN  << TRUE, keyword_list[first[2]] >>

\* [col_names.index(field) for field in fields]
ResolveIdx(cols, fields) == [i \in DOMAIN fields |-> IndexOf(cols, fields[i])] \o << >>

Resolvable(cols, fields) == \A i \in DOMAIN fields : HasItem(cols, fields[i])

(***************************************************************************)
(* filter_samples: << excluded_runs, included_runs >>.                     *)
(***************************************************************************)
\* the loop of lines 159-164 over the rows that are left
RECURSIVE FilterLoop(_, _, _, _, _)
FilterLoop(relation, idx, blacklist, excluded, included) ==
    IF relation = << >> THEN << excluded, included >>
    ELSE LET run == Head(relation)
             is_in_blacklist == is_key_in_run(run.fields, idx, blacklist)[1]
         IN  IF is_in_blacklist
             THEN FilterLoop(Tail(relation), idx, blacklist, Append(excluded, run), included)
             ELSE FilterLoop(Tail(relation), idx, blacklist, excluded, Append(included, run))

filter_samples(relation, cols, fields, blacklist) ==
    FilterLoop(relation, ResolveIdx(cols, fields), blacklist, << >>, << >>)

(***************************************************************************)
(* classify_runs: << classified_runs, unresolved_runs, undefined_runs >>.  *)
(***************************************************************************)
\* the inner loop over the classes: the run with one identified keyword appended per class
RECURSIVE AppendKeys(_, _, _)
AppendKeys(fields, idx, list_of_keyword_lists) ==
    IF list_of_keyword_lists = << >> THEN fields
    ELSE AppendKeys(fields \o << is_key_in_run(fields, idx, Head(list_of_keyword_lists))[2] >>,
                    idx, Tail(list_of_keyword_lists))

\* part_of_class_overview; `fields` grows while the classes are scanned
RECURSIVE ClassOverview(_, _, _)
ClassOverview(fields, idx, list_of_keyword_lists) ==
    IF list_of_keyword_lists = << >> THEN << >>
    ELSE LET r == is_key_in_run(fields, idx, Head(list_of_keyword_lists))
         IN  << r[1] >> \o ClassOverview(fields \o << r[2] >>, idx, Tail(list_of_keyword_lists))

CountTrue(overview) == Cardinality({ i \in DOMAIN overview : overview[i] })

\* faulty variant: a run matching several classes goes to the first of them
Placement_first_class(overview) ==
    IF CountTrue(overview) = 0 THEN << "undefined", 0 >>
    ELSE << "class", IndexOf(overview, TRUE) >>

\* faulty variant: a run matching several classes is dropped
Placement_drop_unresolved(overview) ==
    IF CountTrue(overview) = 0 THEN << "undefined", 0 >>
    ELSE IF CountTrue(overview) > 1 THEN << "dropped", 0 >>
    ELSE << "class", IndexOf(overview, TRUE) >>

\* lines 190-195: undefined, unresolved or the class at the Python index of the first True
Placement(overview) ==
    IF CountTrue(overview) = 0 THEN << "undefined", 0 >>
    ELSE IF CountTrue(overview) > 1 THEN << "unresolved", 0 >>
    ELSE << "class", IndexOf(overview, TRUE) >>

\* the loop of lines 182-195 over the runs that are left
RECURSIVE ClassifyLoop(_, _, _, _, _, _)
ClassifyLoop(runs, idx, list_of_keyword_lists, classified, unresolved, undefined) ==
    IF runs = << >> THEN << classified, unresolved, undefined >>
    ELSE LET run == [pos |-> Head(runs).pos,
                     fields |-> AppendKeys(Head(runs).fields, idx, list_of_keyword_lists)]
             place == Placement(ClassOverview(Head(runs).fields, idx, list_of_keyword_lists))
         IN  IF place[1] = "undefined"
             THEN ClassifyLoop(Tail(runs), idx, list_of_keyword_lists,
                               classified, unresolved, Append(undefined, run))
             ELSE IF place[1] = "unresolved"
             THEN ClassifyLoop(Tail(runs), idx, list_of_keyword_lists,
                               classified, Append(unresolved, run), undefined)
             ELSE IF place[1] = "class"
             THEN ClassifyLoop(Tail(runs), idx, list_of_keyword_lists,
                               [classified EXCEPT ![place[2] + 1] = Append(@, run)],
                               unresolved, undefined)
             ELSE ClassifyLoop(Tail(runs), idx, list_of_keyword_lists,
                               classified, unresolved, undefined)

classify_runs(runs, cols, fields, list_of_keyword_lists) ==
    ClassifyLoop(runs, ResolveIdx(cols, fields), list_of_keyword_lists,
                 [c \in DOMAIN list_of_keyword_lists |-> << >>] \o << >>, << >>, << >>)

(***************************************************************************)
(* The inputs: what parse_sra_relation, parse_keyword_list and             *)
(* parse_keyword_json hand to main.                                        *)
(***************************************************************************)
\* check_access_status, lines 379-380 and 399: fixed Python indices
RunAccessionIdx == 7

ProjectAccessionIdx == 58

\* a header of the SRA relation: run_accession at index 7, study_accession at index 58
SraCols ==
    [i \in 1..(ProjectAccessionIdx + 1) |->
        CASE i = RunAccessionIdx + 1 -> "run_accession"
          [] i = ProjectAccessionIdx + 1 -> "study_accession"
          [] i = 3 -> "experiment_title"
          [] i = 5 -> "sample_name"
          [] i = 6 -> "sample_attribute"
          [] OTHER -> "col" \o ToString(i)]

\* a short header that names the same fields in another order
ShortCols ==
    << "run_accession", "sample_name", "sample_attribute", "experiment_title", "study_accession" >>

\* the header `cols` with the column `name` absent (the column carries another name)
Without(cols, name) ==
    [i \in DOMAIN cols |-> IF cols[i] = name THEN "x_" \o name ELSE cols[i]]

\* one line of the table under the header `cols`
MkFields(cols, attr, title, name, racc, pacc) ==
    [i \in DOMAIN cols |->
        CASE cols[i] = "sample_attribute" -> attr
          [] cols[i] = "experiment_title" -> title
          [] cols[i] = "sample_name" -> name
          [] cols[i] = "run_accession" -> racc
          [] cols[i] = "study_accession" -> pacc
          [] OTHER -> << >>]

\* sra_relation.append(splitted), line by line
MkTable(lines) == [i \in DOMAIN lines |-> [pos |-> i, fields |-> lines[i]]]

ClassNames == << "c1", "c2", "c3" >>

\* tables, blacklists and keyword mappings that exercise the matching
MatchLines ==
    { MkFields(ShortCols, attr, title, name, << "R", "1" >>, << "P", "1" >>) :
        attr \in { << "b" >>, << "x", "T" >> },
        title \in { << "T", "b" >>, << "q" >> },
        name \in { << >>, << "B", "Q" >> } }

MatchBlacklists == { << >>, << << "q" >> >>, << << "Q" >>, << "x" >> >> }

MatchMappings ==
    { << >>,
      << << >> >>,
      << << << "t" >> >> >>,
      << << << "t" >>, << "B" >> >>, << << "B" >> >> >>,
      << << << "B" >>, << "t" >> >>, << >> >>,
      << << << "T" >> >>, << << "q" >> >>, << << "b" >>, << "x" >> >> >> }

\* tables and keyword mappings that exercise the enrichment and the writers
AccessLines ==
    { MkFields(SraCols, attr, << >>, << >>, << "R", "1" >>, pacc) :
        attr \in { << "t" >>, << "b" >> },
        pacc \in { << "P", "1" >>, << "P", "2" >> } }

AccessMappings ==
    { << >>,
      << << << "t" >> >>, << << "b" >> >> >>,
      << << << "t" >> >>, << << "T" >>, << "b" >> >> >> }

AccessSchemas ==
    { SraCols } \cup
    { Without(SraCols, name) :
        name \in { "sample_attribute", "experiment_title", "sample_name",
                   "run_accession", "study_accession" } }

\* (get_access_status, ncbi_api_key) as click hands them to main
AccessOptions ==
    { << FALSE, None >>, << TRUE, None >>, << TRUE, "" >>, << TRUE, "key" >> }

InitWith(schemas, lines, blacklists, mappings, options) ==
    /\ col_names \in schemas
    /\ sra_relation \in { MkTable(t) : t \in SeqsUpTo(lines, MaxRows) }
    /\ blacklist_keywords \in blacklists
    /\ all_class_keywords \in mappings
    /\ all_class_names = SubSeq(ClassNames, 1, Len(all_class_keywords))
    /\ \E o \in options : get_access_status = o[1] /\ ncbi_api_key = o[2]
    /\ excluded_runs = << >>
    /\ included_runs = << >>
    /\ classified_runs = << >>
    /\ unresolved_runs = << >>
    /\ undefined_runs = << >>
    /\ all_projects = << >>
    /\ project_access = << >>
    /\ cursor = 0
    /\ remote_calls = << >>
    /\ files = << >>
    /\ pc = "filter_samples"
    /\ error = ""

\* the matching stages on a short header, without enrichment
InitMatch ==
    InitWith({ ShortCols }, MatchLines, MatchBlacklists, MatchMappings, { << FALSE, None >> })

\* the whole of main on the SRA header
Init ==
    InitWith(AccessSchemas, AccessLines, { << >>, << << "B" >> >> }, AccessMappings, AccessOptions)

(***************************************************************************)
(* main, lines 60-64.                                                      *)
(***************************************************************************)
Abort(msg) ==
    /\ pc' = "aborted"
    /\ error' = msg

\* line 60; col_names.index raises ValueError for a searched field that is no column
FilterSamples ==
    /\ pc = "filter_samples"
    /\ IF Resolvable(col_names, fields_to_search)
       THEN LET r == filter_samples(sra_relation, col_names, fields_to_search, blacklist_keywords)
            IN  /\ excluded_runs' = r[1]
                /\ included_runs' = r[2]
                /\ pc' = "classify_runs"
                /\ error' = error
       ELSE /\ Abort("ValueError: searched field is not in col_names")
            /\ UNCHANGED << excluded_runs, included_runs >>
    /\ UNCHANGED << col_names, sra_relation, blacklist_keywords, all_class_keywords,
                    all_class_names, get_access_status, ncbi_api_key, classified_runs,
                    unresolved_runs, undefined_runs, all_projects, project_access,
                    cursor, remote_calls, files >>

\* lines 63-64
ClassifyRuns ==
    /\ pc = "classify_runs"
    /\ LET r == classify_runs(included_runs, col_names, fields_to_search, all_class_keywords)
       IN  /\ classified_runs' = r[1]
           /\ unresolved_runs' = r[2]
           /\ undefined_runs' = r[3]
    /\ pc' = "access_branch"
    /\ UNCHANGED << col_names, sra_relation, blacklist_keywords, all_class_keywords,
                    all_class_names, get_access_status, ncbi_api_key, excluded_runs,
                    included_runs, all_projects, project_access, cursor, remote_calls,
                    files, error >>

(***************************************************************************)
(* main, lines 66-72.                                                      *)
(***************************************************************************)
\* faulty variant: the credential is not looked at
main_access_branch_no_key_check(flag, api_key) ==
    IF flag THEN "check_access_status" ELSE "generate_output"

\* `if get_access_status: if ncbi_api_key: ... else: exit(...)`; None and "" are falsy
main_access_branch(flag, api_key) ==
    IF flag
    THEN (IF api_key # None /\ api_key # "" THEN "check_access_status" ELSE "exit")
    ELSE "generate_output"

AccessBranch ==
    /\ pc = "access_branch"
    /\ LET to == main_access_branch(get_access_status, ncbi_api_key)
       IN  IF to = "exit"
           THEN Abort("Error: Please provide an NCBI API Key")
           ELSE pc' = to /\ error' = error
    /\ UNCHANGED << col_names, sra_relation, blacklist_keywords, all_class_keywords,
                    all_class_names, get_access_status, ncbi_api_key, excluded_runs,
                    included_runs, classified_runs, unresolved_runs, undefined_runs,
                    all_projects, project_access, cursor, remote_calls, files >>

(***************************************************************************)
(* The remote service: what an esearch and an esummary request can answer. *)
(***************************************************************************)
SearchResponses == { "one_id", "no_id", "many_ids", "not_xml" }

Controlled == << "c", "o", "n", "t", "r", "o", "l", "l", "e", "d" >>

SummaryResponses ==
    { [xml |-> FALSE, has_summary |-> FALSE, summary |-> << >>],
      [xml |-> TRUE, has_summary |-> FALSE, summary |-> << >>],
      [xml |-> TRUE, has_summary |-> TRUE, summary |-> << "p", "u", "b", "l", "i", "c" >>],
      [xml |-> TRUE, has_summary |-> TRUE,
       summary |-> << "x", " ", "C", "o", "n", "t", "r", "o", "l", "l", "e", "d" >>] }

(***************************************************************************)
(* get_id_from_accn: [raised, id]. The request is always sent. A response  *)
(* that is no XML makes xmltodict.parse raise an ExpatError, which         *)
(* `except IOError` does not catch. A response without an Id makes the     *)
(* subscript raise, which the bare except turns into "-1". A response with *)
(* several Id elements yields a list, written "list" here.                 *)
(***************************************************************************)
get_id_from_accn(accn, response) ==
    CASE response = "not_xml" -> [raised |-> "ExpatError", id |-> ""]
      [] response = "no_id" -> [raised |-> "", id |-> "-1"]
      [] response = "many_ids" -> [raised |-> "", id |-> "list"]
      [] OTHER -> [raised |-> "", id |-> "uid"]

(***************************************************************************)
(* get_access_info: [raised, requested, value]. `value` is the returned    *)
(* tuple: three empty strings for the id "-1" (line 332), otherwise        *)
(* << is_controlled, cluster_info >> (line 371). Every failure after the   *)
(* request is caught by a bare except; base_url + id raises a TypeError    *)
(* for a list, before the request.                                         *)
(***************************************************************************)
get_access_info(id, response) ==
    IF id = "-1" THEN [raised |-> "", requested |-> FALSE, value |-> << "", "", "" >>]
    ELSE IF id = "list" THEN [raised |-> "TypeError", requested |-> FALSE, value |-> << >>]
    ELSE LET is_controlled ==
                 IF ~response.xml \/ ~response.has_summary THEN ""
                 ELSE IF Contains(Lower(response.summary), Controlled) THEN "controlled"
                 ELSE "public"
         IN  [raised |-> "", requested |-> TRUE, value |-> << is_controlled, "" >>]

(***************************************************************************)
(* check_access_status, lines 375-388: one iteration of the inner loop.    *)
(***************************************************************************)
\* faulty variant: a project is never taken as seen
SeenProject_never(projects, project_accession) == FALSE

\* line 381
SeenProject(projects, project_accession) == HasItem(projects, project_accession)

CheckAccessLookup ==
    /\ pc = "check_access_status"
    /\ cursor < Len(Flatten(classified_runs))
    /\ LET run == Flatten(classified_runs)[cursor + 1].fields
       IN  IF Len(run) <= ProjectAccessionIdx
           THEN /\ Abort("IndexError")
                /\ UNCHANGED << all_projects, project_access, cursor, remote_calls >>
           ELSE
           LET run_accession == PyAt(run, RunAccessionIdx)
               project_accession == PyAt(run, ProjectAccessionIdx)
           IN  IF SeenProject(all_projects, project_accession)
               THEN /\ cursor' = cursor + 1
                    /\ UNCHANGED << all_projects, project_access, remote_calls, pc, error >>
               ELSE
               \E sr \in SearchResponses, mr \in SummaryResponses :
                   LET idr == get_id_from_accn(run_accession, sr)
                       air == get_access_info(idr.id, mr)
                       search == [op |-> "esearch", project |-> project_accession,
                                  response |-> sr]
                       summary == [op |-> "esummary", project |-> project_accession,
                                   response |-> IF mr.xml THEN "xml" ELSE "not_xml"]
                   IN  /\ all_projects' = Append(all_projects, project_accession)
                       /\ remote_calls' =
                              IF idr.raised = "" /\ air.requested
                              THEN remote_calls \o << search, summary >>
                              ELSE Append(remote_calls, search)
                       /\ IF idr.raised # ""
                          THEN Abort(idr.raised) /\ UNCHANGED << project_access, cursor >>
                          ELSE IF air.raised # ""
                          THEN Abort(air.raised) /\ UNCHANGED << project_access, cursor >>
                          ELSE IF Len(air.value) # 2
                          THEN /\ Abort("ValueError: too many values to unpack")
                               /\ UNCHANGED << project_access, cursor >>
                          ELSE /\ project_access' =
                                      [q \in DOMAIN project_access \cup { project_accession } |->
                                          IF q = project_accession THEN air.value[1]
                                          ELSE project_access[q]]
                               /\ cursor' = cursor + 1
                               /\ UNCHANGED << pc, error >>
    /\ UNCHANGED << col_names, sra_relation, blacklist_keywords, all_class_keywords,
                    all_class_names, get_access_status, ncbi_api_key, excluded_runs,
                    included_runs, classified_runs, unresolved_runs, undefined_runs, files >>

(***************************************************************************)
(* check_access_status, lines 390-409, and the assignment of line 70.      *)
(***************************************************************************)
\* faulty variant: a run without a status is kept as public
AccessBucket_keep_undetermined(status) ==
    IF status = "controlled" THEN "controlled" ELSE "public"

\* lines 400-405
AccessBucket(status) ==
    IF status = "controlled" THEN "controlled"
    ELSE IF status = "public" THEN "public"
    ELSE "dropped"

RunsWithAccess(runs_of_class, access, bucket) ==
    SelectRuns(runs_of_class,
               [i \in DOMAIN runs_of_class |->
                   AccessBucket(access[PyAt(runs_of_class[i].fields, ProjectAccessionIdx)]) = bucket])

RECURSIVE Repartition(_, _)
Repartition(runs, access) ==
    IF runs = << >> THEN << >>
    ELSE << RunsWithAccess(Head(runs), access, "public"),
            RunsWithAccess(Head(runs), access, "controlled") >>
         \o Repartition(Tail(runs), access)

RECURSIVE AccessClassNames(_)
AccessClassNames(names) ==
    IF names = << >> THEN << >>
    ELSE << Head(names) \o "_public", Head(names) \o "_controlled_access" >>
         \o AccessClassNames(Tail(names))

CheckAccessRepartition ==
    /\ pc = "check_access_status"
    /\ cursor = Len(Flatten(classified_runs))
    /\ classified_runs' = Repartition(classified_runs, project_access)
    /\ all_class_names' = AccessClassNames(all_class_names)
    /\ pc' = "generate_output"
    /\ UNCHANGED << col_names, sra_relation, blacklist_keywords, all_class_keywords,
                    get_access_status, ncbi_api_key, excluded_runs, included_runs,
                    unresolved_runs, undefined_runs, all_projects, project_access,
                    cursor, remote_calls, files, error >>

(***************************************************************************)
(* The report writers.  A written line is the sequence of its cells, the   *)
(* strings "\t".join puts tabs between.                                    *)
(***************************************************************************)
fields_to_write ==
    << "run_accession", "sample_attribute", "sample_name", "experiment_title", "study_accession" >>

\* [i * -1 for i in reversed(range(1, n + 1))]
NegativeIdx(n) == [i \in 1..n |-> i - n - 1]

\* line 216: the Python indices of the identified keywords, one per class name
KeywordIdx(class_names) == NegativeIdx(Len(class_names))

\* line 219: the header cells; joining no names leaves one empty cell after the last tab
HeaderCells(cols, idx, class_names) ==
    [i \in DOMAIN idx |-> PyAt(cols, idx[i])]
    \o (IF class_names = << >> THEN << "" >>
        ELSE [i \in DOMAIN class_names |-> class_names[i] \o "_identified_keyword"])

write_run_subset_to_file(runs, cols, idx_fields_to_search, prefix, class_names) ==
    LET idx == idx_fields_to_search \o KeywordIdx(class_names)
    IN  [name |-> "sample_overview/" \o prefix \o "samples.tsv",
         header |-> HeaderCells(cols, idx_fields_to_search, class_names),
         lines |-> [r \in DOMAIN runs |->
                      [i \in DOMAIN idx |-> PyAt(runs[r].fields, idx[i])]]]

\* ord() of the characters of an accession
Ord(c) ==
    CASE c = "1" -> 49
      [] c = "2" -> 50
      [] c = "P" -> 80
      [] c = "R" -> 82
      [] OTHER -> 0

\* a < b for str
RECURSIVE StrLess(_, _)
StrLess(a, b) ==
    IF b = << >> THEN FALSE
    ELSE IF a = << >> THEN TRUE
    ELSE IF Ord(Head(a)) # Ord(Head(b)) THEN Ord(Head(a)) < Ord(Head(b))
    ELSE StrLess(Tail(a), Tail(b))

\* sorted(zip(values, labels), reverse=True) over the items of Counter(ids)
RECURSIVE SortedDesc(_)
SortedDesc(items) ==
    IF items = {} THEN << >>
    ELSE LET top == CHOOSE p \in items : \A q \in items :
                        q = p \/ q[1] < p[1] \/ (q[1] = p[1] /\ StrLess(q[2], p[2]))
         IN  << top >> \o SortedDesc(items \ { top })

write_summary_statistic_runs(ids, path) ==
    LET items == { << Cardinality({ i \in DOMAIN ids : ids[i] = l }), l >> : l \in Range(ids) }
        ranked == SortedDesc(items)
    IN  [name |-> path,
         header |-> << Len(ids), Cardinality(Range(ids)) >>,
         lines |-> [i \in DOMAIN ranked |-> << ranked[i][2], ranked[i][1] >>]]

generate_project_overview(runs, cols, class_names) ==
    LET idx_study_acc == IndexOf(cols, "study_accession")
    IN  [c \in DOMAIN runs |->
            write_summary_statistic_runs(
                [r \in DOMAIN runs[c] |-> PyAt(runs[c][r].fields, idx_study_acc)],
                "summary_statistics/" \o class_names[c] \o "_summary_samples.txt")]

generate_download_list(runs, class_names, cols) ==
    LET idx_run_acc == IndexOf(cols, "run_accession")
    IN  [c \in DOMAIN runs |->
            [name |-> "download_lists/" \o class_names[c] \o "_dl_list.txt",
             header |-> << >>,
             lines |-> [r \in DOMAIN runs[c] |-> PyAt(runs[c][r].fields, idx_run_acc)]]]

(***************************************************************************)
(* main, lines 74-97.  With at most as many class names as columns, every  *)
(* index of line 221 is in range.                                          *)
(***************************************************************************)
GenerateOutput ==
    /\ pc = "generate_output"
    /\ IF Resolvable(col_names, fields_to_write)
       THEN LET idx_fields_to_write == ResolveIdx(col_names, fields_to_write)
            IN  /\ files' =
                       [c \in DOMAIN classified_runs |->
                          write_run_subset_to_file(classified_runs[c], col_names,
                              idx_fields_to_write, all_class_names[c] \o "_", all_class_names)]
                       \o << write_run_subset_to_file(undefined_runs, col_names,
                                 idx_fields_to_write, "undefined_", all_class_names),
                             write_run_subset_to_file(unresolved_runs, col_names,
                                 idx_fields_to_write, "unresolved_", all_class_names) >>
                       \o generate_project_overview(classified_runs, col_names, all_class_names)
                       \o generate_download_list(classified_runs, all_class_names, col_names)
                /\ pc' = "done"
                /\ error' = error
       ELSE /\ Abort("ValueError: written field is not in col_names")
            /\ files' = files
    /\ UNCHANGED << col_names, sra_relation, blacklist_keywords, all_class_keywords,
                    all_class_names, get_access_status, ncbi_api_key, excluded_runs,
                    included_runs, classified_runs, unresolved_runs, undefined_runs,
                    all_projects, project_access, cursor, remote_calls >>

NextMatch == FilterSamples \/ ClassifyRuns

SpecMatch == InitMatch /\ [][NextMatch]_vars

Next ==
    \/ FilterSamples
    \/ ClassifyRuns
    \/ AccessBranch
    \/ CheckAccessLookup
    \/ CheckAccessRepartition
    \/ GenerateOutput

Spec == Init /\ [][Next]_vars

(***************************************************************************)
(* Vocabulary of the properties.  A keyword matches a run when it is a     *)
(* case-insensitive substring of one of the searched fields, which are     *)
(* looked up by name in the header.                                        *)
(***************************************************************************)
FieldNamed(fields, name) == fields[IndexOf(col_names, name) + 1]

KeywordMatches(fields, keyword) ==
    \E f \in DOMAIN fields_to_search :
        Contains(Lower(FieldNamed(fields, fields_to_search[f])), Lower(keyword))

ClassMatches(fields, c) ==
    \E k \in DOMAIN all_class_keywords[c] : KeywordMatches(fields, all_class_keywords[c][k])

MatchingClasses(fields) == { c \in DOMAIN all_class_keywords : ClassMatches(fields, c) }

Blacklisted(fields) ==
    \E k \in DOMAIN blacklist_keywords : KeywordMatches(fields, blacklist_keywords[k])

\* how often the row at position p of the table occurs in a partition
Occurrences(partition, p) == Cardinality({ i \in DOMAIN partition : partition[i].pos = p })

Classified == pc \notin { "filter_samples", "classify_runs", "aborted" }

ClassifierOutput == Flatten(classified_runs) \o unresolved_runs \o undefined_runs

\* C1: after filter_samples and classify_runs every row of the table, taken by its
\* position, occurs exactly once over excluded, undefined, unresolved and the class
\* partitions together, so that no row is lost, duplicated or in two partitions.
C1_PartitionsDisjointExhaustive ==
    pc = "access_branch" =>
        LET all == excluded_runs \o ClassifierOutput
        IN  /\ \A p \in DOMAIN sra_relation : Occurrences(all, p) = 1
            /\ \A i \in DOMAIN all :
                   /\ all[i].pos \in DOMAIN sra_relation
                   /\ SubSeq(all[i].fields, 1, Len(col_names)) = sra_relation[all[i].pos].fields

\* a table of two rows, one excluded and one unresolved
C1_Witness ==
    /\ pc = "access_branch"
    /\ Len(excluded_runs) = 1
    /\ Len(unresolved_runs) = 1

ExtraKeywords == { << "b" >>, << "X" >>, << "t", "b" >> }

C3_ExcludedIffBlacklisted ==
    pc \notin { "filter_samples", "aborted" } =>
        /\ \A p \in DOMAIN sra_relation :
               /\ Occurrences(excluded_runs, p) = (IF Blacklisted(sra_relation[p].fields) THEN 1 ELSE 0)
               /\ Occurrences(included_runs, p) = (IF Blacklisted(sra_relation[p].fields) THEN 0 ELSE 1)
        /\ Len(excluded_runs) + Len(included_runs) = Len(sra_relation)
        /\ blacklist_keywords = << >> => excluded_runs = << >> /\ included_runs = sra_relation
        /\ sra_relation = << >> => excluded_runs = << >> /\ included_runs = << >>
        /\ \A kw \in ExtraKeywords :
               LET more == filter_samples(sra_relation, col_names, fields_to_search,
                                          Append(blacklist_keywords, kw))
               IN  /\ \A i \in DOMAIN excluded_runs :
                          Occurrences(more[1], excluded_runs[i].pos) = 1
                   /\ \A i \in DOMAIN more[2] :
                          Occurrences(included_runs, more[2][i].pos) = 1

\* a keyword of the blacklist in another case than the field that it excludes
C3_Witness ==
    /\ pc = "classify_runs"
    /\ included_runs # << >>
    /\ \E i \in DOMAIN excluded_runs :
           /\ Blacklisted(excluded_runs[i].fields)
           /\ \A k \in DOMAIN blacklist_keywords, f \in DOMAIN fields_to_search :
                  ~Contains(FieldNamed(excluded_runs[i].fields, fields_to_search[f]),
                            blacklist_keywords[k])

\* the hit that comes first when the fields are scanned in order and, within a field,
\* the keywords of class c in order
FirstHit(fields, c, f, k) ==
    /\ Contains(Lower(FieldNamed(fields, fields_to_search[f])), Lower(all_class_keywords[c][k]))
    /\ \A g \in DOMAIN fields_to_search, h \in DOMAIN all_class_keywords[c] :
           (g < f \/ (g = f /\ h < k)) =>
               ~Contains(Lower(FieldNamed(fields, fields_to_search[g])),
                         Lower(all_class_keywords[c][h]))

\* C9: a row returned by classify_runs is the original fields followed by one
\* identified keyword per class in mapping order: the empty string for a class that
\* did not match, otherwise the first keyword found scanning the searched fields in
\* order and the keywords in order within a field; the input rows are not modified.
C9_IdentifiedKeywordSuffix ==
    pc = "access_branch" =>
        /\ \A i \in DOMAIN ClassifierOutput :
               LET out == ClassifierOutput[i].fields
                   orig == SubSeq(out, 1, Len(col_names))
               IN  /\ Len(out) = Len(col_names) + Len(all_class_keywords)
                   /\ orig = sra_relation[ClassifierOutput[i].pos].fields
                   /\ \A c \in DOMAIN all_class_keywords :
                          IF ClassMatches(orig, c)
                          THEN \E f \in DOMAIN fields_to_search, k \in DOMAIN all_class_keywords[c] :
                                   /\ FirstHit(orig, c, f, k)
                                   /\ out[Len(col_names) + c] = all_class_keywords[c][k]
                          ELSE out[Len(col_names) + c] = << >>
        /\ \A j \in DOMAIN included_runs :
               included_runs[j].fields = sra_relation[included_runs[j].pos].fields
        /\ \A p \in DOMAIN sra_relation : Len(sra_relation[p].fields) = Len(col_names)

\* a class whose second keyword is found in an earlier field than its first keyword
C9_Witness ==
    /\ pc = "access_branch"
    /\ \E i \in DOMAIN ClassifierOutput, c \in DOMAIN all_class_keywords :
           /\ Len(all_class_keywords[c]) >= 2
           /\ ClassifierOutput[i].fields[Len(col_names) + c] = all_class_keywords[c][2]
           /\ KeywordMatches(SubSeq(ClassifierOutput[i].fields, 1, Len(col_names)),
                             all_class_keywords[c][1])

(***************************************************************************)
(* Vocabulary of the enrichment properties.                                *)
(***************************************************************************)
\* the class partitions that main passes to check_access_status
InputClasses == classify_runs(included_runs, col_names, fields_to_search, all_class_keywords)[1]

ProjectOf(run) == PyAt(run.fields, ProjectAccessionIdx)

ProjectsOf(runs) == { ProjectOf(runs[i]) : i \in DOMAIN runs }

CallsFor(op, project) ==
    { i \in DOMAIN remote_calls : remote_calls[i].op = op /\ remote_calls[i].project = project }

Enriched == get_access_status /\ pc \in { "generate_output", "done" }

\* C4: a lookup that yields the not-found sentinel, or a response that cannot be
\* parsed, does not abort the run: no summary request is sent for a not-found
\* identifier, the project is recorded as undetermined, the remaining projects are
\* processed and check_access_status returns with the rows of that project dropped.
C4_FailedLookupIsAbsorbed ==
    LET failed == { i \in DOMAIN remote_calls :
                      remote_calls[i].response \in { "no_id", "not_xml" } }
    IN  /\ \A i \in failed :
               /\ error \notin { "ExpatError", "ValueError: too many values to unpack" }
               /\ pc # "aborted" =>
                      /\ remote_calls[i].project \in DOMAIN project_access
                      /\ project_access[remote_calls[i].project] = ""
               /\ remote_calls[i].response = "no_id" =>
                      CallsFor("esummary", remote_calls[i].project) = {}
        /\ Enriched =>
               \A i \in failed, j \in DOMAIN Flatten(classified_runs) :
                   ProjectOf(Flatten(classified_runs)[j]) # remote_calls[i].project

\* C5: a project accession causes at most one identifier lookup and at most one
\* summary lookup, only projects of classified rows are looked up, the number of
\* remote calls is at most twice the number of distinct project accessions, and
\* every row is repartitioned by the one status stored for its project accession.
C5_LookupsOncePerProject ==
    Classified =>
        LET input == InputClasses
            projects == ProjectsOf(Flatten(input))
        IN  /\ \A i \in DOMAIN remote_calls :
                   /\ remote_calls[i].project \in projects
                   /\ Cardinality(CallsFor(remote_calls[i].op, remote_calls[i].project)) = 1
            /\ Len(remote_calls) <= 2 * Cardinality(projects)
            /\ Enriched =>
                   /\ DOMAIN project_access = projects
                   /\ \A c \in DOMAIN input : \A r \in DOMAIN input[c] :
                          LET status == project_access[ProjectOf(input[c][r])]
                          IN  /\ Occurrences(classified_runs[2 * c - 1], input[c][r].pos)
                                     = (IF status = "public" THEN 1 ELSE 0)
                              /\ Occurrences(classified_runs[2 * c], input[c][r].pos)
                                     = (IF status = "controlled" THEN 1 ELSE 0)

\* two or more classified rows of one project, looked up once and all written out
C5_Witness ==
    /\ pc = "done"
    /\ get_access_status
    /\ Len(Flatten(classified_runs)) >= 2
    /\ Cardinality(ProjectsOf(Flatten(classified_runs))) = 1
    /\ Len(remote_calls) = 2

\* C6: check_access_status replaces each class C, in order, by C_public and
\* C_controlled_access; a row of C is in C_public exactly when the status of its
\* project is public, in C_controlled_access exactly when it is controlled, in
\* neither when it is undetermined, and in no sub-partition of another class, so
\* the sub-partitions never hold more rows than the input partitions.
C6_RepartitionByStatus ==
    Enriched =>
        LET input == InputClasses
            flat == Flatten(input)
        IN  /\ Len(classified_runs) = 2 * Len(input)
            /\ Len(all_class_names) = 2 * Len(input)
            /\ \A c \in DOMAIN input :
                   /\ all_class_names[2 * c - 1] = ClassNames[c] \o "_public"
                   /\ all_class_names[2 * c] = ClassNames[c] \o "_controlled_access"
                   /\ \A r \in DOMAIN input[c] :
                          LET status == project_access[ProjectOf(input[c][r])]
                          IN  \A d \in DOMAIN classified_runs :
                                  Occurrences(classified_runs[d], input[c][r].pos) =
                                      (IF \/ (d = 2 * c - 1 /\ status = "public")
                                          \/ (d = 2 * c /\ status = "controlled")
                                       THEN 1 ELSE 0)
            /\ \A d \in DOMAIN classified_runs : \A r \in DOMAIN classified_runs[d] :
                   \E i \in DOMAIN flat : flat[i] = classified_runs[d][r]
            /\ Len(Flatten(classified_runs)) <= Len(flat)

\* two classified rows, one kept and one dropped for an undetermined status
C6_Witness ==
    /\ pc = "done"
    /\ get_access_status
    /\ Len(included_runs) = 2
    /\ undefined_runs = << >>
    /\ unresolved_runs = << >>
    /\ Len(Flatten(classified_runs)) = 1
    /\ \E p \in DOMAIN project_access : project_access[p] = ""

\* C7: with enrichment requested and no credential supplied main ends with the
\* fatal configuration error, no remote call is issued and no output is written
\* (a header without a searched field has ended main in filter_samples before).
C7_MissingCredentialIsFatal ==
    (get_access_status /\ ncbi_api_key \in { None, "" }) =>
        /\ remote_calls = << >>
        /\ files = << >>
        /\ pc \in { "filter_samples", "classify_runs", "access_branch", "aborted" }
        /\ pc = "aborted" =>
               error = (IF Resolvable(col_names, fields_to_search)
                        THEN "Error: Please provide an NCBI API Key"
                        ELSE "ValueError: searched field is not in col_names")

\* the exit of line 72, taken with classified rows in hand
C7_Witness ==
    /\ get_access_status
    /\ ncbi_api_key = None
    /\ pc = "aborted"
    /\ error = "Error: Please provide an NCBI API Key"
    /\ Flatten(classified_runs) # << >>

\* C8: with a required field name (a searched field, run_accession or
\* study_accession) absent from the header, main aborts before any partition is
\* produced, before any remote lookup and before any output is written.
C8_AbortBeforeAnyPartition ==
    ~Resolvable(col_names, fields_to_write) =>
        /\ excluded_runs = << >>
        /\ included_runs = << >>
        /\ classified_runs = << >>
        /\ unresolved_runs = << >>
        /\ undefined_runs = << >>
        /\ remote_calls = << >>
        /\ files = << >>

\* C10: with or without enrichment, a line of a sample table is the selected
\* original columns of its row followed by exactly the identified keywords that
\* classify_runs appended to the row, one per <class>_identified_keyword column.
SampleTableSources == classified_runs \o << undefined_runs, unresolved_runs >>

C10_KeywordColumnsAreTheSuffix ==
    pc = "done" =>
        \A f \in DOMAIN SampleTableSources : \A r \in DOMAIN SampleTableSources[f] :
            LET row == SampleTableSources[f][r].fields
                suffix == SubSeq(row, Len(col_names) + 1, Len(row))
                keyword_columns == IF all_class_names = << >> THEN 0
                                   ELSE Len(files[f].header) - Len(fields_to_write)
            IN  /\ keyword_columns = Len(suffix)
                /\ files[f].lines[r] =
                       [i \in DOMAIN fields_to_write |-> FieldNamed(row, fields_to_write[i])]
                       \o suffix

====
